---- MODULE Spec2Model ----
(***************************************************************************)
(* Model of the pelios-webapp session boundary: the three route handlers   *)
(* (POST /api/auth/token, POST /api/auth/logout, GET /api/projects), the   *)
(* page shells of /projects and /projects/:id, and the browser's cookie    *)
(* jar that carries the session between them.                              *)
(* The client side is modelled as well: the four views that load           *)
(* /api/projects, handleLogout, the two drafts of the login form, and the  *)
(* pure helpers (duration formatting, YouTube id extraction).              *)
(*                                                                         *)
(* JavaScript values are records tagged by type: Undefined, Null, Str(s),  *)
(* Obj(fields).  An object field holding Undefined is an absent field.     *)
(* URLs are sequences of segments, so that trailing-slash trimming and     *)
(* concatenation are computed.  An HTTP body is either Text(t), a text     *)
(* that is not JSON, or Json(v), the serialisation of the JSON value v.    *)
(***************************************************************************)
EXTENDS Integers, Sequences, FiniteSets, TLC

VARIABLES
    baseUrl,   \* process.env.NEXT_PUBLIC_API_BASE_URL
    nodeEnv,   \* process.env.NODE_ENV
    jar,       \* the browser's cookie store, by cookie name
    issued,    \* history: access token of the latest successful exchange
    last,      \* history: the latest handler call (request, upstream, result)
    page,      \* what the browser shows after the latest page request
    view,      \* the mounted client view: its React state and its fetch
    storage,   \* the browser's localStorage, by key
    location,  \* the latest window.location.assign() of client code
    form,      \* the login form: its React state and its request
    logoutCall,\* handleLogout: its call to /api/auth/logout
    calc,      \* the latest application of a pure helper
    toolbar,   \* the mounted view's search text and status filter
    inflight   \* requests of client code that have not settled, by path

client == <<view, storage, location, form, logoutCall, calc, toolbar, inflight>>

vars == <<baseUrl, nodeEnv, jar, issued, last, page, view, storage, location,
          form, logoutCall, calc, toolbar, inflight>>

(***************************** JavaScript values ***************************)

Undefined == [t |-> "undefined"]
Null == [t |-> "null"]
Str(s) == [t |-> "string", v |-> s]
Obj(fields) == [t |-> "object", fields |-> fields]

\* JS truthiness of the values above (undefined, null and "" are falsy).
Truthy(x) == x.t = "object" \/ (x.t = "string" /\ x.v # "")

\* a ?? b
Coalesce(a, b) == IF a.t \in {"undefined", "null"} THEN b ELSE a

\* String(x)
ToStr(x) ==
    CASE x.t = "string" -> x.v
      [] x.t = "undefined" -> "undefined"
      [] x.t = "null" -> "null"
      [] OTHER -> "[object Object]"

\* data?.field
Get(data, field) ==
    IF data.t = "object" /\ field \in DOMAIN data.fields
    THEN data.fields[field]
    ELSE Undefined

(******************************** HTTP bodies ******************************)

Text(s) == [kind |-> "text", text |-> s]
Json(v) == [kind |-> "json", value |-> v]

\* JSON.parse(text): fails on a text that is not JSON.
JSONparse(body) ==
    IF body.kind = "json" THEN [ok |-> TRUE, value |-> body.value]
    ELSE [ok |-> FALSE]

\* res.ok
Ok(status) == status >= 200 /\ status <= 299

(********************************** Bounds *********************************)

MaxTrailingSlashes == 1

(******************************* Environment *******************************)

Origin == "https://api.pelios.example"

RECURSIVE Slashes(_)
Slashes(n) == IF n = 0 THEN <<>> ELSE <<"/">> \o Slashes(n - 1)

Env(chars) == [t |-> "string", chars |-> chars]

\* Values of NEXT_PUBLIC_API_BASE_URL: unset, empty, or an origin followed
\* by some trailing slashes.
BaseUrls ==
    {Undefined, Env(<<>>)} \cup
    {Env(<<Origin>> \o Slashes(n)) : n \in 0..MaxTrailingSlashes}

\* !baseUrl is false
Configured(base) == base.t = "string" /\ base.chars # <<>>

NodeEnvs == {"production", "development"}

(****************************** Cookie store *******************************)

CookieNames == {"pelios_token", "pelios_user"}

NoCookie == [present |-> FALSE]

\* An optional number: <<>> when the option is not given.
NoMaxAge == <<>>

SetCookie(name, value, httpOnly, secure, maxAge) ==
    [name |-> name, value |-> value, httpOnly |-> httpOnly, secure |-> secure,
     sameSite |-> "lax", path |-> "/", maxAge |-> maxAge]

\* The browser applying one Set-Cookie: maxAge <= 0 deletes the cookie of
\* that name and path, anything else stores it.
ApplySetCookie(store, c) ==
    IF c.maxAge # NoMaxAge /\ c.maxAge[1] <= 0
    THEN [store EXCEPT ![c.name] = NoCookie]
    ELSE [store EXCEPT ![c.name] =
            [present |-> TRUE, value |-> c.value, httpOnly |-> c.httpOnly,
             secure |-> c.secure, sameSite |-> c.sameSite, path |-> c.path,
             maxAge |-> c.maxAge]]

RECURSIVE ApplyCookies(_, _)
ApplyCookies(store, cs) ==
    IF cs = <<>> THEN store
    ELSE ApplyCookies(ApplySetCookie(store, Head(cs)), Tail(cs))

\* req.cookies.get("pelios_token")?.value, as the browser sends it
CookieValue(store, name) ==
    IF store[name].present THEN Str(store[name].value) ELSE Undefined

(***************************** Handler results *****************************)

\* NextResponse.json(value, {status})
JsonResponse(value, status) ==
    [kind |-> "response", status |-> status, body |-> Json(value),
     cookies |-> <<>>]

\* new NextResponse(body, {status})
RawResponse(body, status) ==
    [kind |-> "response", status |-> status, body |-> body, cookies |-> <<>>]

\* The handler's promise rejects: it builds no response of its own.
Throws == [kind |-> "throws"]

Result(resp, outbound) == [resp |-> resp, outbound |-> outbound]

\* An upstream answer fully read (status and body text), or a rejection of
\* fetch() / res.text().
Upstream(status, body) == [kind |-> "response", status |-> status, body |-> body]
NetworkError == [kind |-> "throws"]

ErrorBody(msg) == Obj([error |-> msg])

(************************** POST /api/auth/token ***************************)

AuthTokenPath == <<"/api/Auth/Token">>

SessionMaxAge == 2592000

\* The request body as req.json() yields it; valid = FALSE when it rejects.
TokenRequest(valid, userName, password) ==
    [valid |-> valid, userName |-> userName, password |-> password]

TokenUrl(base, req) ==
    [method |-> "GET",
     url |-> base.chars \o AuthTokenPath,
     query |-> [userName |-> ToStr(Coalesce(req.userName, Str(""))),
                password |-> ToStr(Coalesce(req.password, Str("")))],
     authorization |-> Undefined]

\* Mutant: the missing configuration is reported as an upstream failure.
TokenMissingConfigAs502 ==
    JsonResponse(ErrorBody("Missing NEXT_PUBLIC_API_BASE_URL"), 502)

\* if (!baseUrl) return 500
TokenMissingConfig ==
    JsonResponse(ErrorBody("Missing NEXT_PUBLIC_API_BASE_URL"), 500)

\* Mutant: the refusal is reported under a status of the handler's own.
TokenRelayAs502(up) == RawResponse(up.body, 502)

\* if (!res.ok) relay status and text
TokenRelay(up) == RawResponse(up.body, up.status)

\* JSON.parse(text) threw
TokenNonJson ==
    JsonResponse(ErrorBody("Auth server returned non-JSON response"), 502)

\* Mutant: an answer without access_Token also ends the session held so far.
TokenNoAccessTokenClearsSession ==
    LET res == JsonResponse(ErrorBody("Auth server did not return access_Token"), 502)
    IN  [res EXCEPT !.cookies =
            << SetCookie("pelios_token", "", TRUE, FALSE, <<0>>),
               SetCookie("pelios_user", "", FALSE, FALSE, <<0>>) >>]

\* Mutant: a missing access_Token is answered like a success without cookies.
TokenNoAccessTokenAs200 ==
    JsonResponse(ErrorBody("Auth server did not return access_Token"), 200)

\* if (!accessToken)
TokenNoAccessToken ==
    JsonResponse(ErrorBody("Auth server did not return access_Token"), 502)

\* Mutant: the token cookie is readable from scripts.
TokenSuccessReadable(mode, accessToken, returnedUserName) ==
    LET isProd == mode = "production"
        response == JsonResponse(Obj([ok |-> TRUE, userName |-> returnedUserName]), 200)
    IN  [response EXCEPT !.cookies =
            << SetCookie("pelios_token", ToStr(accessToken), FALSE, isProd, NoMaxAge),
               SetCookie("pelios_user", ToStr(returnedUserName), FALSE, isProd,
                         <<SessionMaxAge>>) >>]

\* Mutant: the token cookie is issued already expired.
TokenSuccessExpired(mode, accessToken, returnedUserName) ==
    LET isProd == mode = "production"
        response == JsonResponse(Obj([ok |-> TRUE, userName |-> returnedUserName]), 200)
    IN  [response EXCEPT !.cookies =
            << SetCookie("pelios_token", ToStr(accessToken), TRUE, isProd, <<0>>),
               SetCookie("pelios_user", ToStr(returnedUserName), FALSE, isProd,
                         <<SessionMaxAge>>) >>]

\* Mutant: the response body carries the access token as well.
TokenSuccessLeaksBody(mode, accessToken, returnedUserName) ==
    LET isProd == mode = "production"
        response == JsonResponse(Obj([ok |-> TRUE, userName |-> returnedUserName,
                                      access_Token |-> accessToken]), 200)
    IN  [response EXCEPT !.cookies =
            << SetCookie("pelios_token", ToStr(accessToken), TRUE, isProd, NoMaxAge),
               SetCookie("pelios_user", ToStr(returnedUserName), FALSE, isProd,
                         <<SessionMaxAge>>) >>]

TokenSuccess(mode, accessToken, returnedUserName) ==
    LET isProd == mode = "production"
        response == JsonResponse(Obj([ok |-> TRUE, userName |-> returnedUserName]), 200)
    IN  [response EXCEPT !.cookies =
            << SetCookie("pelios_token", ToStr(accessToken), TRUE, isProd, NoMaxAge),
               SetCookie("pelios_user", ToStr(returnedUserName), FALSE, isProd,
                         <<SessionMaxAge>>) >>]

AuthTokenPOST(base, mode, req, up) ==
    IF ~Configured(base)
    THEN Result(TokenMissingConfig, <<>>)
    ELSE IF ~req.valid
    THEN Result(Throws, <<>>)
    ELSE LET call == TokenUrl(base, req) IN
    IF up.kind = "throws"
    THEN Result(Throws, <<call>>)
    ELSE IF ~Ok(up.status)
    THEN Result(TokenRelay(up), <<call>>)
    ELSE LET parsed == JSONparse(up.body) IN
    IF ~parsed.ok
    THEN Result(TokenNonJson, <<call>>)
    ELSE LET data == parsed.value
             accessToken == Get(data, "access_Token")
             returnedUserName == Coalesce(Get(data, "userName"), req.userName)
         IN
    IF ~Truthy(accessToken)
    THEN Result(TokenNoAccessToken, <<call>>)
    ELSE Result(TokenSuccess(mode, accessToken, returnedUserName), <<call>>)

(************************** POST /api/auth/logout **************************)

\* Mutant: the display-name cookie is emptied but not expired.
AuthLogoutKeepsUser(mode) ==
    LET res == JsonResponse(Obj([ok |-> TRUE]), 200)
        secure == mode = "production"
    IN  Result([res EXCEPT !.cookies =
                    << SetCookie("pelios_token", "", TRUE, secure, <<0>>),
                       SetCookie("pelios_user", "", FALSE, secure, NoMaxAge) >>],
               <<>>)

AuthLogoutPOST(mode) ==
    LET res == JsonResponse(Obj([ok |-> TRUE]), 200)
        secure == mode = "production"
    IN  Result([res EXCEPT !.cookies =
                    << SetCookie("pelios_token", "", TRUE, secure, <<0>>),
                       SetCookie("pelios_user", "", FALSE, secure, <<0>>) >>],
               <<>>)

(**************************** GET /api/projects ****************************)

GetSourcesPath == <<"/api/Pelios/GetSources">>

\* baseUrl.replace(/\/+$/, "")
RECURSIVE StripTrailingSlashes(_)
StripTrailingSlashes(chars) ==
    IF chars # <<>> /\ chars[Len(chars)] = "/"
    THEN StripTrailingSlashes(SubSeq(chars, 1, Len(chars) - 1))
    ELSE chars

SourcesUrl(base) == StripTrailingSlashes(base.chars) \o GetSourcesPath

SourcesCall(base, token) ==
    [method |-> "GET",
     url |-> SourcesUrl(base),
     query |-> [userName |-> "", password |-> ""],
     authorization |-> Str("Bearer " \o token.v)]

\* Mutant: the failure payload does not name the endpoint.
UnreachableNoEndpoint(url) ==
    JsonResponse(Obj([error |-> "Failed to reach Pelios API",
                      detail |-> "fetch failed"]), 502)

Unreachable(url) ==
    JsonResponse(Obj([error |-> "Failed to reach Pelios API",
                      detail |-> "fetch failed",
                      endpoint |-> url]), 502)

\* if (!baseUrl) return 500
ProjectsMissingConfig ==
    JsonResponse(ErrorBody("Missing NEXT_PUBLIC_API_BASE_URL"), 500)

\* Mutant: the missing cookie is answered by clearing both cookies.
NotAuthenticatedClearsCookies ==
    LET res == JsonResponse(ErrorBody("Not authenticated"), 401) IN
    [res EXCEPT !.cookies =
        << SetCookie("pelios_token", "", TRUE, FALSE, <<0>>),
           SetCookie("pelios_user", "", FALSE, FALSE, <<0>>) >>]

\* Mutant: the missing cookie is answered 403.
NotAuthenticatedAs403 ==
    JsonResponse(ErrorBody("Not authenticated (missing pelios_token cookie)"), 403)

\* if (!token) return 401
NotAuthenticated ==
    JsonResponse(ErrorBody("Not authenticated (missing pelios_token cookie)"), 401)

\* Mutant: every upstream answer is passed on as a 200.
SourcesRelayAs200(up) == RawResponse(up.body, 200)

\* new NextResponse(bodyText, {status: res.status})
SourcesRelay(up) == RawResponse(up.body, up.status)

ProjectsGET(base, token, up) ==
    IF ~Configured(base)
    THEN Result(ProjectsMissingConfig, <<>>)
    ELSE IF ~Truthy(token)
    THEN Result(NotAuthenticated, <<>>)
    ELSE LET call == SourcesCall(base, token) IN
    IF up.kind = "throws"
    THEN Result(Unreachable(call.url), <<call>>)
    ELSE Result(SourcesRelay(up), <<call>>)

(******************************* Page shells *******************************)

RouteIds == {"1", "abc"}

Redirect(to) ==
    [kind |-> "redirect", to |-> to, component |-> "none", sourceId |-> "",
     fetches |-> 0]

\* The client view as the server hands it to the browser: mounted later.
Render(component, sourceId) ==
    [kind |-> "view", to |-> "", component |-> component, sourceId |-> sourceId,
     fetches |-> 0]

\* Mutant: the guard redirects only when the cookie is absent.
ProjectPagePresenceOnly(token, params) ==
    IF token.t = "undefined" THEN Redirect("/login")
    ELSE Render("ProjectClient", params.id)

\* /projects/:id, a server component
ProjectPage(token, params) ==
    IF ~Truthy(token) THEN Redirect("/login")
    ELSE Render("ProjectClient", params.id)

\* /projects: page.tsx is itself the client component ("use client"); no
\* server code reads the cookie before it is rendered.
ProjectsPage(token) == Render("ProjectsPage", "")

(***************************** Input domains ******************************)

AccessTokens == {Undefined, Null, Str(""), Str("tok1"), Str("tok2")}

UpstreamUserNames == {Undefined, Null, Str("alice")}

\* Bodies of the auth endpoint: not JSON, the JSON null, or an object whose
\* access_Token and userName are absent (Undefined), null, empty or set.
AuthBodies ==
    {Text("<html>"), Json(Null)} \cup
    {Json(Obj([access_Token |-> a, userName |-> u])) :
        a \in AccessTokens, u \in UpstreamUserNames}

\* What the auth endpoint sends with a refusal; the last one shows that a
\* refusal is relayed whatever its body holds.
AuthErrorBodies ==
    {Text("Invalid credentials"), Json(ErrorBody("invalid_grant")),
     Json(Obj([access_Token |-> Str("tok1"), userName |-> Str("alice")]))}

AuthOkStatuses == {200, 201}

AuthErrorStatuses == {400, 401, 500}

AuthUpstreams ==
    {NetworkError} \cup
    {Upstream(s, b) : s \in AuthOkStatuses, b \in AuthBodies} \cup
    {Upstream(s, b) : s \in AuthErrorStatuses, b \in AuthErrorBodies}

\* Request bodies: unparsable, {} and {userName, password}.
TokenRequests ==
    {TokenRequest(FALSE, Undefined, Undefined),
     TokenRequest(TRUE, Undefined, Undefined),
     TokenRequest(TRUE, Str("bob"), Str("pw"))}

SourcesBodies ==
    {Json(Obj([sources |-> <<1>>])), Json(ErrorBody("Bad Gateway")),
     Text("Unauthorized")}

SourcesStatuses == {200, 401, 502}

SourcesUpstreams ==
    {NetworkError} \cup
    {Upstream(s, b) : s \in SourcesStatuses, b \in SourcesBodies}

\* The pelios_token cookie of a request: what the browser holds, or what a
\* client that builds its own Cookie header sends.
RequestTokens == {Undefined, Str(""), Str("forged")}

(********************************* Actions *********************************)

EmptyJar == [n \in CookieNames |-> NoCookie]

\* No outbound call was made, so no upstream outcome was consumed.
NoCall == [kind |-> "none"]

Consumed(r, up) == IF r.outbound = <<>> THEN NoCall ELSE up

\* A page request (route, route parameter, the pelios_token cookie it
\* carried) and what the browser got for it.
Page(route, param, token, out) ==
    [route |-> route, param |-> param, token |-> token, kind |-> out.kind,
     to |-> out.to, component |-> out.component, sourceId |-> out.sourceId,
     fetches |-> out.fetches]

NoPage ==
    Page("none", "", Undefined,
         [kind |-> "none", to |-> "", component |-> "none", sourceId |-> "",
          fetches |-> 0])

\* A JSON array
Arr(items) == [t |-> "array", items |-> items]

\* useState: sources [], loading true, error ""; the error text is a
\* sequence of its parts, <<>> being the empty text.
Mounted(component, sourceId) ==
    [component |-> component, sourceId |-> sourceId, sources |-> Arr(<<>>),
     loading |-> TRUE, error |-> <<>>, fetch |-> "pending",
     got |-> [kind |-> "none"]]

\* No client view is mounted.
NoView ==
    [component |-> "none", sourceId |-> "", sources |-> Arr(<<>>),
     loading |-> FALSE, error |-> <<>>, fetch |-> "none",
     got |-> [kind |-> "none"]]

StorageKeys == {"pelios_token", "pelios_user"}

EmptyStorage == [k \in StorageKeys |-> Null]

\* The login form of one of the two drafts, idle and empty.  History:
\* `ignored`, a submit has been dropped since the latest request was sent;
\* `got`, what fetch() gave handleLogin for that request.
LoginForm(variant) ==
    [variant |-> variant, email |-> "", password |-> "", result |-> <<>>,
     loading |-> FALSE, pending |-> FALSE, ignored |-> FALSE,
     got |-> [kind |-> "none"]]

NoLogout == [state |-> "idle", hadUser |-> FALSE, got |-> [kind |-> "none"]]

NoCalc == [fn |-> "none"]

\* useState: search "", filter "all"
NoToolbar == [search |-> "", filter |-> "all"]

\* No fetch of client code is outstanding.
NoneInFlight == [projects |-> 0, token |-> 0]

ClientInit ==
    /\ view = NoView
    /\ storage = EmptyStorage
    /\ location = ""
    /\ form = LoginForm("part_001")
    /\ logoutCall = NoLogout
    /\ calc = NoCalc
    /\ toolbar = NoToolbar
    /\ inflight = NoneInFlight

Init ==
    /\ baseUrl \in BaseUrls
    /\ nodeEnv \in NodeEnvs
    /\ jar = EmptyJar
    /\ issued = Undefined
    /\ last = [op |-> "none"]
    /\ page = NoPage
    /\ ClientInit

\* The browser applies the Set-Cookie headers of a response it received.
Receive(store, resp) ==
    IF resp.kind = "response" THEN ApplyCookies(store, resp.cookies) ELSE store

\* The browser posts credentials to /api/auth/token.
PostAuthToken ==
    \E req \in TokenRequests, up \in AuthUpstreams :
        LET r == AuthTokenPOST(baseUrl, nodeEnv, req, up) IN
        /\ last' = [op |-> "token", req |-> req, up |-> Consumed(r, up),
                    resp |-> r.resp, outbound |-> r.outbound]
        /\ jar' = Receive(jar, r.resp)
        /\ issued' = IF r.resp.kind = "response" /\ r.resp.cookies # <<>>
                     THEN Get(JSONparse(up.body).value, "access_Token")
                     ELSE issued
        /\ UNCHANGED <<baseUrl, nodeEnv, page>>
        /\ UNCHANGED client

\* The browser posts to /api/auth/logout.
PostAuthLogout ==
    LET r == AuthLogoutPOST(nodeEnv) IN
    /\ last' = [op |-> "logout",
                req |-> [token |-> CookieValue(jar, "pelios_token")], up |-> NoCall,
                resp |-> r.resp, outbound |-> r.outbound]
    /\ jar' = Receive(jar, r.resp)
    /\ issued' = Undefined
    /\ UNCHANGED <<baseUrl, nodeEnv, page>>
    /\ UNCHANGED client

\* GET /api/projects with the browser's cookies (fromJar) or with a Cookie
\* header of the client's own making.
GetProjects ==
    \E fromJar \in BOOLEAN, forged \in RequestTokens, up \in SourcesUpstreams :
        LET token == IF fromJar THEN CookieValue(jar, "pelios_token") ELSE forged
            r == ProjectsGET(baseUrl, token, up)
        IN
        /\ fromJar => forged = Undefined
        /\ ~fromJar => forged # CookieValue(jar, "pelios_token")
        /\ last' = [op |-> "projects", req |-> [token |-> token, fromJar |-> fromJar],
                    up |-> Consumed(r, up), resp |-> r.resp,
                    outbound |-> r.outbound]
        /\ jar' = Receive(jar, r.resp)
        /\ UNCHANGED <<baseUrl, nodeEnv, issued, page>>
        /\ UNCHANGED client

\* The browser navigates to /projects/:id.
RequestProjectPage ==
    \E id \in RouteIds :
        LET token == CookieValue(jar, "pelios_token") IN
        /\ page' = Page("/projects/:id", id, token, ProjectPage(token, [id |-> id]))
        /\ view' = NoView
        /\ location' = ""
        /\ logoutCall' = NoLogout
        /\ toolbar' = NoToolbar
        /\ inflight' = NoneInFlight
        /\ UNCHANGED <<baseUrl, nodeEnv, jar, issued, last>>
        /\ UNCHANGED <<storage, form, calc>>

\* The browser navigates to /projects.
RequestProjectsPage ==
    LET token == CookieValue(jar, "pelios_token") IN
    /\ page' = Page("/projects", "", token, ProjectsPage(token))
    /\ view' = NoView
    /\ location' = ""
    /\ logoutCall' = NoLogout
    /\ toolbar' = NoToolbar
    /\ inflight' = NoneInFlight
    /\ UNCHANGED <<baseUrl, nodeEnv, jar, issued, last>>
    /\ UNCHANGED <<storage, form, calc>>

\* The rendered client view mounts in the browser: its effect runs once and
\* issues the fetch of /api/projects.
MountView ==
    /\ page.kind = "view"
    /\ page.fetches = 0
    /\ page' = [page EXCEPT !.fetches = 1]
    /\ view' = Mounted(page.component, page.sourceId)
    /\ inflight' = [inflight EXCEPT !.projects = 1]
    /\ UNCHANGED <<baseUrl, nodeEnv, jar, issued, last>>
    /\ UNCHANGED <<storage, location, form, logoutCall, calc, toolbar>>

Next ==
    \/ PostAuthToken
    \/ PostAuthLogout
    \/ GetProjects
    \/ RequestProjectPage
    \/ RequestProjectsPage
    \/ MountView

Spec == Init /\ [][Next]_vars

\* The route handlers alone, with the browser that calls them.
NextApi ==
    \/ PostAuthToken
    \/ PostAuthLogout
    \/ GetProjects

SpecApi == Init /\ [][NextApi]_vars

(******************************* Client views ******************************)

\* The four components that load /api/projects in an effect:
\*   ProjectsPage          src/app/projects/page.tsx
\*   ProjectClient         unnamed/part_001 (rendered by /projects/:id)
\*   ProjectsClient        unnamed/part_002
\*   ProjectsClientSimple  src/app/projects/ProjectsClient.tsx
Components ==
    {"ProjectsPage", "ProjectClient", "ProjectsClient", "ProjectsClientSimple"}

\* The components no page shell of the repository renders.
UnroutedComponents == {"ProjectsClient", "ProjectsClientSimple"}

\* fetch() of the browser rejected: no response reached the view.
FetchRejected == [kind |-> "rejected"]

FailedToFetch == <<"Failed to fetch">>
JsonSyntaxError == <<"Unexpected token in JSON">>

\* Mutant: no component tests for status 401.
NoComponentHas401Branch(component) == FALSE

\* if (res.status === 401) is part of the effect
Has401Branch(component) ==
    component \in {"ProjectsPage", "ProjectClient", "ProjectsClient"}

\* The text before "(status): body" in the thrown Error
FailurePrefix(component) ==
    IF component = "ProjectClient" THEN "Failed to load project"
    ELSE "Failed to load projects"

\* Mutant: the failure is thrown with an empty message.
HttpFailureSilent(component, status, body) == <<>>

\* `${prefix} (${res.status}): ${t}`
HttpFailure(component, status, body) ==
    <<FailurePrefix(component), status, body>>

\* The argument of setSources(...)
SourcesFrom(component, data) ==
    IF component = "ProjectsPage"
    THEN (IF data.t = "array" THEN data ELSE Arr(<<>>))
    ELSE Coalesce(data, Arr(<<>>))

\* Mutant: the finally block leaves the loading flag alone.
LoadFinallyNothing(v, got) == [v EXCEPT !.fetch = "settled", !.got = got]

\* finally { setLoading(false) }
LoadFinally(v, got) ==
    [v EXCEPT !.loading = FALSE, !.fetch = "settled", !.got = got]

\* catch (err) { setError(err.message) }
LoadCatch(v, message) == [v EXCEPT !.error = message]

\* Mutant: the body is decoded and stored before the status is tested.
LoadStoresBeforeStatus(v, got) ==
    IF got.kind = "rejected"
    THEN [view |-> LoadFinally(LoadCatch(v, FailedToFetch), got), navigate |-> ""]
    ELSE IF Has401Branch(v.component) /\ got.status = 401
    THEN [view |-> LoadFinally(v, got), navigate |-> "/login"]
    ELSE LET parsed == JSONparse(got.body) IN
    IF ~parsed.ok
    THEN [view |-> LoadFinally(LoadCatch(v, JsonSyntaxError), got), navigate |-> ""]
    ELSE LET stored == [v EXCEPT !.sources = Coalesce(parsed.value, Arr(<<>>))] IN
    IF ~Ok(got.status)
    THEN [view |-> LoadFinally(
                     LoadCatch(stored,
                               HttpFailure(v.component, got.status, got.body)),
                     got),
          navigate |-> ""]
    ELSE [view |-> LoadFinally(stored, got), navigate |-> ""]

\* The effect's load() once its fetch has settled with `got`: the view's
\* next state and the path it navigates to ("" for none).
Load(v, got) ==
    IF got.kind = "rejected"
    THEN [view |-> LoadFinally(LoadCatch(v, FailedToFetch), got), navigate |-> ""]
    ELSE IF Has401Branch(v.component) /\ got.status = 401
    THEN [view |-> LoadFinally(v, got), navigate |-> "/login"]
    ELSE IF ~Ok(got.status)
    THEN [view |-> LoadFinally(
                     LoadCatch(v, HttpFailure(v.component, got.status, got.body)),
                     got),
          navigate |-> ""]
    ELSE LET parsed == JSONparse(got.body) IN
    IF ~parsed.ok
    THEN [view |-> LoadFinally(LoadCatch(v, JsonSyntaxError), got), navigate |-> ""]
    ELSE [view |-> LoadFinally(
                     [v EXCEPT !.sources = SourcesFrom(v.component, parsed.value)],
                     got),
          navigate |-> ""]

\* What the external API may answer to the fetch of a view.
ViewBodies ==
    {Json(Arr(<<1>>)), Json(Null), Json(ErrorBody("Bad Gateway")),
     Text("Unauthorized")}

ViewStatuses == {200, 401, 502}

ViewUpstreams ==
    {NetworkError} \cup {Upstream(s, b) : s \in ViewStatuses, b \in ViewBodies}

\* A browser that holds the session of a successful exchange.
SessionJar(mode) == Receive(EmptyJar, TokenSuccess(mode, Str("tok1"), Str("alice")))

\* The views are observed from a browser with or without a session.
InitView ==
    /\ baseUrl \in BaseUrls
    /\ nodeEnv \in NodeEnvs
    /\ \E session \in BOOLEAN :
        /\ session => Configured(baseUrl)
        /\ jar = IF session THEN SessionJar(nodeEnv) ELSE EmptyJar
        /\ issued = IF session THEN Str("tok1") ELSE Undefined
        /\ storage = IF session
                     THEN [EmptyStorage EXCEPT !["pelios_user"] = Str("alice")]
                     ELSE EmptyStorage
    /\ last = [op |-> "none"]
    /\ page = NoPage
    /\ view = NoView
    /\ location = ""
    /\ form = LoginForm("part_001")
    /\ logoutCall = NoLogout
    /\ calc = NoCalc
    /\ toolbar = NoToolbar
    /\ inflight = NoneInFlight

\* The browser loads a document that renders one of the components no
\* page shell of the repository renders, and the component mounts.
MountDraft ==
    \E c \in UnroutedComponents :
        LET token == CookieValue(jar, "pelios_token")
            out == Render(c, "")
        IN
        /\ page' = Page("unrouted", "", token, [out EXCEPT !.fetches = 1])
        /\ view' = Mounted(c, "")
        /\ location' = ""
        /\ logoutCall' = NoLogout
        /\ toolbar' = NoToolbar
        /\ inflight' = [NoneInFlight EXCEPT !.projects = 1]
        /\ UNCHANGED <<baseUrl, nodeEnv, jar, issued, last>>
        /\ UNCHANGED <<storage, form, calc>>

\* The fetch of the mounted view settles: either the browser's fetch
\* rejects, or GET /api/projects handles the request with the browser's
\* cookies and the view's load() continues with its response.
SettleFetch ==
    \E rejected \in BOOLEAN, up \in ViewUpstreams :
        LET token == CookieValue(jar, "pelios_token")
            r == ProjectsGET(baseUrl, token, up)
            got == IF rejected THEN FetchRejected ELSE r.resp
            out == Load(view, got)
        IN
        /\ view.fetch = "pending"
        /\ (rejected \/ r.outbound = <<>>) => up = NetworkError
        /\ last' = IF rejected THEN last
                   ELSE [op |-> "projects",
                         req |-> [token |-> token, fromJar |-> TRUE],
                         up |-> Consumed(r, up), resp |-> r.resp,
                         outbound |-> r.outbound]
        /\ jar' = IF rejected THEN jar ELSE Receive(jar, r.resp)
        /\ view' = out.view
        /\ location' = IF out.navigate = "" THEN location ELSE out.navigate
        /\ inflight' = [inflight EXCEPT !.projects = @ - 1]
        /\ UNCHANGED <<baseUrl, nodeEnv, issued, page>>
        /\ UNCHANGED <<storage, form, logoutCall, calc, toolbar>>

\* The components with a logout button (page.tsx, unnamed/part_002).
LogoutComponents == {"ProjectsPage", "ProjectsClient"}

\* An answer to the logout call that is not the handler's: a gateway in
\* front of the application fails.
GatewayFailure == RawResponse(Text("Service Unavailable"), 503)

\* Mutant: the local state is cleared only after a 2xx answer.
HandleLogoutOnlyWhenOk(store, got) ==
    IF got.kind = "response" /\ Ok(got.status)
    THEN [storage |-> [store EXCEPT !["pelios_user"] = Null], navigate |-> "/login"]
    ELSE [storage |-> store, navigate |-> ""]

\* handleLogout once its fetch has settled with `got`: catch {} ignores a
\* rejection, the status is never read, and the finally block runs.
HandleLogout(store, got) ==
    [storage |-> [store EXCEPT !["pelios_user"] = Null], navigate |-> "/login"]

\* The user clicks the logout button: handleLogout awaits its fetch.
LogoutClick ==
    /\ view.component \in LogoutComponents
    /\ logoutCall.state = "idle"
    /\ logoutCall' = [state |-> "pending",
                      hadUser |-> storage["pelios_user"] # Null,
                      got |-> [kind |-> "none"]]
    /\ UNCHANGED <<baseUrl, nodeEnv, jar, issued, last, page>>
    /\ UNCHANGED <<view, storage, location, form, calc, toolbar, inflight>>

\* The logout call settles: the browser's fetch rejects, a gateway answers
\* for the application, or POST /api/auth/logout handles the request.
LogoutSettle ==
    \E outcome \in {"rejected", "gateway", "handled"} :
        LET r == AuthLogoutPOST(nodeEnv)
            got == CASE outcome = "rejected" -> FetchRejected
                     [] outcome = "gateway" -> GatewayFailure
                     [] OTHER -> r.resp
            out == HandleLogout(storage, got)
        IN
        /\ logoutCall.state = "pending"
        /\ last' = IF outcome # "handled" THEN last
                   ELSE [op |-> "logout",
                         req |-> [token |-> CookieValue(jar, "pelios_token")],
                         up |-> NoCall, resp |-> r.resp, outbound |-> r.outbound]
        /\ jar' = IF outcome # "handled" THEN jar ELSE Receive(jar, r.resp)
        /\ issued' = IF outcome # "handled" THEN issued ELSE Undefined
        /\ storage' = out.storage
        /\ location' = IF out.navigate = "" THEN location ELSE out.navigate
        /\ logoutCall' = [logoutCall EXCEPT !.state = "done", !.got = got]
        /\ UNCHANGED <<baseUrl, nodeEnv, page, view, form, calc>>
        /\ UNCHANGED <<toolbar, inflight>>

MaxFetches == 2

Searches == {"", "news"}

Filters == {"all", "active", "processing"}

\* Mutant: the effect lists the search text and the filter as dependencies.
EffectDueOnChange(mounting, changed) == mounting \/ changed

\* useEffect(() => { load() }, []): the effect runs after the first render
\* of a mount and after no later render.
EffectDue(mounting, changed) == mounting

\* The search box and the filter are on screen: always in page.tsx, after
\* a load without error in unnamed/part_002 (early returns before).
ToolbarShown(v) ==
    \/ v.component = "ProjectsPage"
    \/ v.component = "ProjectsClient" /\ ~v.loading /\ v.error = <<>>

\* The view renders again after setSearch / setFilter: `next` is the new
\* toolbar state; the effect's fetch is issued if the effect is due.
Rerender(next) ==
    LET due == EffectDue(FALSE, TRUE) IN
    /\ ToolbarShown(view)
    /\ next # toolbar
    /\ due => page.fetches < MaxFetches
    /\ toolbar' = next
    /\ view' = IF due THEN [view EXCEPT !.fetch = "pending"] ELSE view
    /\ page' = IF due THEN [page EXCEPT !.fetches = @ + 1] ELSE page
    /\ inflight' = IF due THEN [inflight EXCEPT !.projects = @ + 1] ELSE inflight
    /\ UNCHANGED <<baseUrl, nodeEnv, jar, issued, last>>
    /\ UNCHANGED <<storage, location, form, logoutCall, calc>>

\* onChange of the search box: setSearch(e.target.value)
ChangeSearch ==
    \E text \in Searches : Rerender([toolbar EXCEPT !.search = text])

\* onChange of the status filter: setFilter(e.target.value)
ChangeFilter ==
    \E f \in Filters : Rerender([toolbar EXCEPT !.filter = f])

NextView ==
    \/ ChangeSearch
    \/ ChangeFilter
    \/ RequestProjectPage
    \/ RequestProjectsPage
    \/ MountView
    \/ MountDraft
    \/ SettleFetch
    \/ LogoutClick
    \/ LogoutSettle

SpecView == InitView /\ [][NextView]_vars

(********************************* Claims **********************************)

\* The access_Token and the user name of a token exchange, read from the
\* upstream body and the request as the claims word them.
UpstreamToken == Get(JSONparse(last.up.body).value, "access_Token")

Answered2xx ==
    /\ last.op = "token"
    /\ last.up.kind = "response"
    /\ last.up.status \in 200..299

Accepted ==
    /\ Answered2xx
    /\ last.up.body.kind = "json"
    /\ UpstreamToken.t = "string"
    /\ UpstreamToken.v # ""

ExchangeUserName ==
    LET u == Get(JSONparse(last.up.body).value, "userName")
    IN  IF u.t = "string" THEN u ELSE last.req.userName

ThirtyDays == 30 * 24 * 60 * 60

\* C1: whenever the auth endpoint answers the forwarded request 2xx with a
\* JSON body holding a non-empty access_Token, the handler answers 200 with
\* {ok: true, userName} and sets exactly two cookies: pelios_token = the
\* access token (HttpOnly, SameSite=Lax, path /, no maxAge, Secure iff
\* production) and pelios_user = the user name as text (not HttpOnly,
\* maxAge 30 days, Secure iff production).
C1_TokenExchangeSuccess ==
    Accepted =>
        /\ last.resp.kind = "response"
        /\ last.resp.status = 200
        /\ last.resp.body = Json(Obj([ok |-> TRUE, userName |-> ExchangeUserName]))
        /\ Len(last.resp.cookies) = 2
        /\ last.resp.cookies[1] =
              [name |-> "pelios_token", value |-> UpstreamToken.v,
               httpOnly |-> TRUE, secure |-> (nodeEnv = "production"),
               sameSite |-> "lax", path |-> "/", maxAge |-> <<>>]
        /\ last.resp.cookies[2] =
              [name |-> "pelios_user", value |-> ToStr(ExchangeUserName),
               httpOnly |-> FALSE, secure |-> (nodeEnv = "production"),
               sameSite |-> "lax", path |-> "/", maxAge |-> <<ThirtyDays>>]

\* C1 witness: in production, an accepted exchange whose user name comes
\* from the request because the upstream body names none.
C1_Witness ==
    /\ Accepted
    /\ nodeEnv = "production"
    /\ Get(JSONparse(last.up.body).value, "userName") = Undefined
    /\ last.req.userName = Str("bob")
    /\ last.resp.kind = "response"
    /\ last.resp.status = 200

\* C2: for every non-2xx answer of the auth endpoint, the handler answers
\* with the same status and the same body text.
C2_TokenFailureRelay ==
    (/\ last.op = "token"
     /\ last.up.kind = "response"
     /\ last.up.status \notin 200..299)
    => /\ last.resp.kind = "response"
       /\ last.resp.status = last.up.status
       /\ last.resp.body = last.up.body
 
\* C2 witness: a 401 with a plain text body was relayed.
C2_Witness ==
    /\ last.op = "token"
    /\ last.up = Upstream(401, Text("Invalid credentials"))
    /\ last.resp.kind = "response"
    /\ last.resp.status = 401

\* C3: whenever the auth endpoint answers 2xx with a body that is not JSON,
\* or JSON without a (non-empty) access_Token, the handler answers 502 with
\* a JSON error body.
C3_TokenMalformedUpstream ==
    (Answered2xx /\ ~Accepted)
    => /\ last.resp.kind = "response"
       /\ last.resp.status = 502
       /\ last.resp.body.kind = "json"
       /\ last.resp.body.value.t = "object"
       /\ DOMAIN last.resp.body.value.fields = {"error"}

\* C3 witness: a 201 whose JSON body holds an empty access_Token.
C3_Witness ==
    /\ Answered2xx
    /\ last.up.status = 201
    /\ last.up.body.kind = "json"
    /\ UpstreamToken = Str("")
    /\ last.resp.status = 502

\* NEXT_PUBLIC_API_BASE_URL holds a value.
ConfigSet == baseUrl # Undefined /\ baseUrl # Env(<<>>)

IsErrorJson(body) ==
    /\ body.kind = "json"
    /\ body.value.t = "object"
    /\ "error" \in DOMAIN body.value.fields

\* C4, as claimed: every GET /api/projects without a pelios_token cookie is
\* answered 401 with an authentication error body, and no request goes to
\* the external API.
C4_NoCookie401 ==
    (last.op = "projects" /\ last.req.token = Undefined)
    => /\ last.resp.kind = "response"
       /\ last.resp.status = 401
       /\ IsErrorJson(last.resp.body)
       /\ last.outbound = <<>>

\* C4, amended: the same, when NEXT_PUBLIC_API_BASE_URL is set.
C4_NoCookie401Configured ==
    (last.op = "projects" /\ last.req.token = Undefined /\ ConfigSet)
    => /\ last.resp.kind = "response"
       /\ last.resp.status = 401
       /\ IsErrorJson(last.resp.body)
       /\ last.outbound = <<>>

\* C4 witness: a configured server answered a cookie-less request.
C4_Witness ==
    /\ last.op = "projects"
    /\ last.req.token = Undefined
    /\ ConfigSet
    /\ last.resp.status = 401

TheSourcesCall ==
    [method |-> "GET",
     url |-> <<Origin, "/api/Pelios/GetSources">>,
     query |-> [userName |-> "", password |-> ""],
     authorization |-> Str("Bearer " \o last.req.token.v)]

CarriesToken ==
    /\ last.op = "projects"
    /\ last.req.token.t = "string"
    /\ last.req.token.v # ""

RelaysUpstream ==
    last.up.kind = "response"
    => /\ last.resp.kind = "response"
       /\ last.resp.status = last.up.status
       /\ last.resp.body = last.up.body

IsUnreachableBody(body) ==
    /\ body.kind = "json"
    /\ body.value.t = "object"
    /\ "endpoint" \in DOMAIN body.value.fields

IsMissingConfig(resp) ==
    /\ resp.kind = "response"
    /\ resp.status = 500
    /\ IsErrorJson(resp.body)

\* C7, as claimed: when NEXT_PUBLIC_API_BASE_URL is not set, every route
\* handler (token, logout, projects) fails with a 500 missing-configuration
\* error, whatever the request holds.
C7_MissingConfigAll ==
    (~ConfigSet /\ last.op \in {"token", "logout", "projects"})
    => IsMissingConfig(last.resp)

\* C7, amended: when NEXT_PUBLIC_API_BASE_URL is not set, the token and the
\* projects handlers fail with a 500 missing-configuration error, whatever
\* the request holds, and call nothing; the logout handler does not read
\* the variable and still answers 200.
C7_MissingConfig ==
    ~ConfigSet
    => /\ last.op \in {"token", "projects"}
          => (IsMissingConfig(last.resp) /\ last.outbound = <<>>)
       /\ last.op = "logout" => last.resp.status = 200

\* C7 witness: an unconfigured server refused a well-formed token request.
C7_Witness ==
    /\ ~ConfigSet
    /\ last.op = "token"
    /\ last.req.valid
    /\ last.req.userName = Str("bob")
    /\ last.resp.status = 500

\* C8: the logout handler succeeds in every state, answers {ok: true} and
\* overwrites both cookies with an empty value and maxAge 0, so that neither
\* exists once the response is applied; applying the response again leaves
\* the cookie store as it is.
C8_Logout ==
    last.op = "logout"
    => /\ last.resp.kind = "response"
       /\ last.resp.status = 200
       /\ last.resp.body = Json(Obj([ok |-> TRUE]))
       /\ {c.name : c \in {last.resp.cookies[i] : i \in DOMAIN last.resp.cookies}}
             = {"pelios_token", "pelios_user"}
       /\ \A i \in DOMAIN last.resp.cookies :
             /\ last.resp.cookies[i].value = ""
             /\ last.resp.cookies[i].maxAge = <<0>>
       /\ \A n \in CookieNames : ~jar[n].present
       /\ ApplyCookies(jar, last.resp.cookies) = jar

\* C8 witness: a logout that was sent with a session cookie.
C8_Witness ==
    /\ last.op = "logout"
    /\ last.req.token \in {Str("tok1"), Str("tok2")}
    /\ ~jar["pelios_token"].present

\* C9, as claimed: on /projects and on /projects/:id, a request without the
\* pelios_token cookie is redirected to /login by the server and the client
\* view never runs (it issues no fetch); a request with the cookie gets the
\* client view, with the route parameter unchanged.
C9_RouteGuard ==
    page.route \in {"/projects", "/projects/:id"}
    => /\ page.token = Undefined
          => (page.kind = "redirect" /\ page.to = "/login" /\ page.fetches = 0)
       /\ page.token # Undefined
          => (page.kind = "view" /\ page.sourceId = page.param)

\* C10: after a token exchange that the external API accepts the browser
\* holds the pelios_token cookie with the issued token, and a following GET
\* /api/projects that carries it, the external API answering 200, is
\* answered 200 with the upstream body.
C10_EndToEndSession ==
    /\ Accepted
       => /\ jar["pelios_token"].present
          /\ jar["pelios_token"].value = UpstreamToken.v
          /\ issued = UpstreamToken
    /\ (/\ last.op = "projects"
        /\ last.req.fromJar
        /\ issued # Undefined
        /\ last.req.token = issued
        /\ last.up.kind = "response"
        /\ last.up.status = 200)
       => /\ last.resp.kind = "response"
          /\ last.resp.status = 200
          /\ last.resp.body = last.up.body

\* C10 witness: the browser, holding the cookie of an exchange, got the
\* sources relayed.
C10_Witness ==
    /\ last.op = "projects"
    /\ last.req.fromJar
    /\ issued = Str("tok2")
    /\ last.req.token = issued
    /\ last.up = Upstream(200, Json(Obj([sources |-> <<1>>])))
    /\ last.resp.status = 200

(******************************* Pure helpers ******************************)

MaxSeconds == 125

\* A JS number holding an integer
Num(n) == [t |-> "number", v |-> n]

Digits == <<"0", "1", "2", "3", "4", "5", "6", "7", "8", "9">>

\* String(n) of a non-negative integer
RECURSIVE NumToString(_)
NumToString(n) ==
    IF n < 10 THEN Digits[n + 1]
    ELSE NumToString(n \div 10) \o Digits[(n % 10) + 1]

\* str.padStart(2, "0")
PadStart2(str) == IF Len(str) >= 2 THEN str ELSE "0" \o str

\* Math.max(0, n)
Max0(n) == IF n > 0 THEN n ELSE 0

\* (x ?? 0) of a number or null
OrZero(x) == Coalesce(x, Num(0)).v

\* Mutant: the seconds are not padded.
FormatClockUnpadded(totalSeconds) ==
    LET s == Max0(totalSeconds)
        h == s \div 3600
        m == (s % 3600) \div 60
        sec == s % 60
    IN  IF h > 0
        THEN NumToString(h) \o ":" \o PadStart2(NumToString(m)) \o ":"
                \o NumToString(sec)
        ELSE NumToString(m) \o ":" \o NumToString(sec)

\* formatClock of page.tsx (Math.floor and `|| 0` leave an integer as it is)
FormatClock(totalSeconds) ==
    LET s == Max0(totalSeconds)
        h == s \div 3600
        m == (s % 3600) \div 60
        sec == s % 60
    IN  IF h > 0
        THEN NumToString(h) \o ":" \o PadStart2(NumToString(m)) \o ":"
                \o PadStart2(NumToString(sec))
        ELSE NumToString(m) \o ":" \o PadStart2(NumToString(sec))

\* formatDuration(from, to) of page.tsx
FormatDurationPage(from, to) == FormatClock(Max0(OrZero(to) - OrZero(from)))

\* formatDuration(from, to) of unnamed/part_001
FormatDurationProject(from, to) ==
    LET secs == Max0(OrZero(to) - OrZero(from))
        h == secs \div 3600
        m == (secs % 3600) \div 60
        s == secs % 60
    IN  IF h > 0
        THEN NumToString(h) \o ":" \o PadStart2(NumToString(m)) \o ":"
                \o PadStart2(NumToString(s))
        ELSE NumToString(m) \o ":" \o PadStart2(NumToString(s))

\* formatDuration(seconds) of unnamed/part_002
FormatDurationList(seconds) ==
    LET s == Max0(seconds)
        h == s \div 3600
        m == (s % 3600) \div 60
        r == s % 60
    IN  IF h > 0
        THEN NumToString(h) \o ":" \o PadStart2(NumToString(m)) \o ":"
                \o PadStart2(NumToString(r))
        ELSE NumToString(m) \o ":" \o PadStart2(NumToString(r))

Formatters == {"page.tsx", "part_001", "part_002"}

\* The duration a view shows for a source, by the file that formats it.
FormatDuration(formatter, from, to) ==
    CASE formatter = "page.tsx" -> FormatDurationPage(from, to)
      [] formatter = "part_001" -> FormatDurationProject(from, to)
      [] OTHER -> FormatDurationList(OrZero(to) - OrZero(from))

TimeFroms == {Null, Num(0), Num(59), Num(3600)}

\* Every second of the first minutes, and values around the hour marks.
TimeTos ==
    {Null} \cup {Num(n) : n \in 0..MaxSeconds} \cup
    {Num(n) : n \in {3599, 3600, 3601, 3659, 3661, 3686, 7199, 7325, 36000,
                     86399, 360000}}

\* The pure helpers are applied from a fixed environment.
InitPure ==
    /\ baseUrl = Env(<<Origin>>)
    /\ nodeEnv = "production"
    /\ jar = EmptyJar
    /\ issued = Undefined
    /\ last = [op |-> "none"]
    /\ page = NoPage
    /\ ClientInit

\* A view formats the duration of a source.
ApplyFormatDuration ==
    \E f \in Formatters, from \in TimeFroms, to \in TimeTos :
        /\ calc = NoCalc
        /\ calc' = [fn |-> "formatDuration", formatter |-> f, from |-> from,
                    to |-> to, out |-> FormatDuration(f, from, to)]
        /\ UNCHANGED <<baseUrl, nodeEnv, jar, issued, last, page>>
        /\ UNCHANGED <<view, storage, location, form, logoutCall>>
        /\ UNCHANGED <<toolbar, inflight>>

\* new URL(url) as the helpers read it: parsable = FALSE when the
\* constructor throws; path holds the non-empty segments of the pathname.
Url(parsable, hostname, v, path) ==
    [parsable |-> parsable, hostname |-> hostname, v |-> v, path |-> path]

Unparsable == Url(FALSE, "", Null, <<>>)

\* str.includes(sub)
Includes(str, sub) ==
    \E i \in 1..(Len(str) - Len(sub) + 1) :
        SubSeq(str, i, i + Len(sub) - 1) = sub

\* u.pathname.replace("/", ""): the segments joined by "/"
RECURSIVE PathnameWithoutSlash(_)
PathnameWithoutSlash(path) ==
    IF path = <<>> THEN ""
    ELSE IF Len(path) = 1 THEN path[1]
    ELSE path[1] \o "/" \o PathnameWithoutSlash(Tail(path))

\* parts.indexOf(segment), 1-based; 0 when absent
IndexOf(parts, segment) ==
    IF \E i \in 1..Len(parts) : parts[i] = segment
    THEN CHOOSE i \in 1..Len(parts) :
            /\ parts[i] = segment
            /\ \A j \in 1..(i - 1) : parts[j] # segment
    ELSE 0

\* parts[index + 1] when a segment follows `segment`, else null
SegmentAfter(parts, segment) ==
    LET i == IndexOf(parts, segment) IN
    IF i # 0 /\ i + 1 <= Len(parts) THEN Str(parts[i + 1]) ELSE Null

\* getYouTubeId of page.tsx
GetYouTubeIdPage(u) ==
    IF ~u.parsable THEN Null
    ELSE IF Includes(u.hostname, "youtu.be")
    THEN (IF PathnameWithoutSlash(u.path) = "" THEN Null
          ELSE Str(PathnameWithoutSlash(u.path)))
    ELSE IF Truthy(u.v) THEN u.v
    ELSE SegmentAfter(u.path, "shorts")

\* getYouTubeId of unnamed/part_002: also reads /embed/ID
GetYouTubeIdList(u) ==
    IF ~u.parsable THEN Null
    ELSE IF Includes(u.hostname, "youtu.be")
    THEN (IF PathnameWithoutSlash(u.path) = "" THEN Null
          ELSE Str(PathnameWithoutSlash(u.path)))
    ELSE IF Truthy(u.v) THEN u.v
    ELSE IF SegmentAfter(u.path, "shorts") # Null
    THEN SegmentAfter(u.path, "shorts")
    ELSE SegmentAfter(u.path, "embed")

\* getYouTubeThumb of page.tsx
GetYouTubeThumb(u) ==
    LET id == GetYouTubeIdPage(u) IN
    IF ~Truthy(id) THEN Null
    ELSE Str("https://i.ytimg.com/vi/" \o id.v \o "/hqdefault.jpg")

Extractors == {"page.tsx", "part_002"}

GetYouTubeId(extractor, u) ==
    IF extractor = "page.tsx" THEN GetYouTubeIdPage(u) ELSE GetYouTubeIdList(u)

Hostnames ==
    {"www.youtube.com", "youtube.com", "youtu.be", "example.com", "vimeo.com"}

VParams == {Null, Str(""), Str("abc123")}

Paths ==
    {<<>>, <<"watch">>, <<"shorts", "xyz789">>, <<"shorts">>, <<"embed", "e1">>,
     <<"xyz789">>, <<"a", "shorts", "xyz789">>}

Urls ==
    {Unparsable} \cup
    {Url(TRUE, h, v, p) : h \in Hostnames, v \in VParams, p \in Paths}

\* A view extracts the video id of a source's URL; page.tsx also builds the
\* thumbnail from it.
ApplyGetYouTubeId ==
    \E e \in Extractors, u \in Urls :
        /\ calc = NoCalc
        /\ calc' = [fn |-> "getYouTubeId", extractor |-> e, url |-> u,
                    id |-> GetYouTubeId(e, u),
                    thumb |-> IF e = "page.tsx" THEN GetYouTubeThumb(u) ELSE Null]
        /\ UNCHANGED <<baseUrl, nodeEnv, jar, issued, last, page>>
        /\ UNCHANGED <<view, storage, location, form, logoutCall>>
        /\ UNCHANGED <<toolbar, inflight>>

\* Values of the pelios_token cookie of a request: absent, empty, set.
CookieTokens == {Undefined, Str(""), Str("tok1"), Str("forged")}

\* The same cookie is shown to the guard of /projects/:id and to GET
\* /api/projects, whatever the external API would answer.
ApplyGuardAndProxy ==
    \E token \in CookieTokens, id \in RouteIds, up \in SourcesUpstreams :
        /\ calc = NoCalc
        /\ calc' = [fn |-> "session", token |-> token, up |-> up,
                    guard |-> ProjectPage(token, [id |-> id]),
                    proxy |-> ProjectsGET(baseUrl, token, up)]
        /\ UNCHANGED <<baseUrl, nodeEnv, jar, issued, last, page>>
        /\ UNCHANGED <<view, storage, location, form, logoutCall>>
        /\ UNCHANGED <<toolbar, inflight>>

NextPure ==
    \/ ApplyFormatDuration
    \/ ApplyGetYouTubeId
    \/ ApplyGuardAndProxy

SpecPure == InitPure /\ [][NextPure]_vars

(******************************** Login form *******************************)

\* The two drafts of LoginPage: unnamed/part_000 and unnamed/part_001.
LoginVariants == {"part_000", "part_001"}

\* str.trim() for the space character
RECURSIVE Trim(_)
Trim(str) ==
    IF str = "" THEN ""
    ELSE IF SubSeq(str, 1, 1) = " " THEN Trim(SubSeq(str, 2, Len(str)))
    ELSE IF SubSeq(str, Len(str), Len(str)) = " "
    THEN Trim(SubSeq(str, 1, Len(str) - 1))
    ELSE str

Emails == {"bob", " bob "}

Passwords == {"pw"}

\* What the browser gets when the route handler's promise rejects.
Uncaught == RawResponse(Text("Internal Server Error"), 500)

\* Mutant: the failure is thrown with an empty message.
LoginFailureSilent(status, body) == <<>>

\* `Login failed (${res.status}): ${t}`
LoginFailure(status, body) == <<"Login failed", status, body>>

\* What a Response shows to the script that fetched it: no Set-Cookie.
Seen(got) ==
    IF got.kind = "rejected" THEN got
    ELSE [kind |-> "response", status |-> got.status, body |-> got.body]

\* handleLogin once its fetch has settled with `got`: the form's and the
\* localStorage's next state and the path it navigates to ("" for none).
HandleLogin(f, store, got) ==
    LET done == [f EXCEPT !.loading = FALSE, !.pending = FALSE,
                          !.got = Seen(got)]
    IN
    IF got.kind = "rejected"
    THEN [form |-> [done EXCEPT !.result = FailedToFetch], storage |-> store,
          navigate |-> ""]
    ELSE IF ~Ok(got.status)
    THEN [form |-> [done EXCEPT !.result = LoginFailure(got.status, got.body)],
          storage |-> store, navigate |-> ""]
    ELSE LET parsed == JSONparse(got.body) IN
    IF ~parsed.ok
    THEN [form |-> [done EXCEPT !.result = JsonSyntaxError], storage |-> store,
          navigate |-> ""]
    ELSE LET data == parsed.value
             user == Str(ToStr(Get(data, "userName")))
             token == Str(ToStr(Get(data, "access_Token")))
         IN  [form |-> [done EXCEPT !.password = ""],
              storage |-> IF f.variant = "part_000"
                          THEN [store EXCEPT !["pelios_token"] = token,
                                             !["pelios_user"] = user]
                          ELSE [store EXCEPT !["pelios_user"] = user],
              navigate |-> "/projects"]

\* The login page of either draft is open in a browser without a session.
InitLogin ==
    /\ baseUrl \in BaseUrls
    /\ nodeEnv \in NodeEnvs
    /\ jar = EmptyJar
    /\ issued = Undefined
    /\ last = [op |-> "none"]
    /\ page = NoPage
    /\ view = NoView
    /\ storage = EmptyStorage
    /\ location = ""
    /\ form \in {LoginForm(v) : v \in LoginVariants}
    /\ logoutCall = NoLogout
    /\ calc = NoCalc
    /\ toolbar = NoToolbar
    /\ inflight = NoneInFlight

MaxInFlight == 2

\* Mutant: handleLogin does not look at `loading`.
NoLoginGuard(f) == FALSE

\* if (loading) return;
LoginGuard(f) == f.loading

\* The user submits the form: handleLogin up to its await.  The render
\* that follows setLoading(true) is part of the step: React flushes the
\* updates of a submit event before the next event is handled.
LoginSubmit ==
    \E email \in Emails, password \in Passwords :
        /\ location = ""
        /\ ~LoginGuard(form)
        /\ inflight.token < MaxInFlight
        /\ form' = [form EXCEPT !.email = email, !.password = password,
                                !.loading = TRUE, !.result = <<>>,
                                !.pending = TRUE, !.ignored = FALSE,
                                !.got = [kind |-> "none"]]
        /\ UNCHANGED <<baseUrl, nodeEnv, jar, issued, last, page>>
        /\ inflight' = [inflight EXCEPT !.token = @ + 1]
        /\ UNCHANGED <<view, storage, location, logoutCall, calc, toolbar>>

\* The login call settles: the browser's fetch rejects, or POST
\* /api/auth/token handles the request and handleLogin continues with the
\* response.
LoginSettle ==
    \E rejected \in BOOLEAN, up \in AuthUpstreams :
        LET req == TokenRequest(TRUE, Str(Trim(form.email)), Str(form.password))
            r == AuthTokenPOST(baseUrl, nodeEnv, req, up)
            got == IF rejected THEN FetchRejected
                   ELSE IF r.resp.kind = "throws" THEN Uncaught
                   ELSE r.resp
            out == HandleLogin(form, storage, got)
        IN
        /\ form.pending
        /\ (rejected \/ r.outbound = <<>>) => up = NetworkError
        /\ last' = IF rejected THEN last
                   ELSE [op |-> "token", req |-> req, up |-> Consumed(r, up),
                         resp |-> r.resp, outbound |-> r.outbound]
        /\ jar' = IF rejected THEN jar ELSE Receive(jar, r.resp)
        /\ issued' = IF ~rejected /\ r.resp.kind = "response"
                         /\ r.resp.cookies # <<>>
                     THEN Get(JSONparse(up.body).value, "access_Token")
                     ELSE issued
        /\ form' = out.form
        /\ storage' = out.storage
        /\ location' = IF out.navigate = "" THEN location ELSE out.navigate
        /\ inflight' = [inflight EXCEPT !.token = @ - 1]
        /\ UNCHANGED <<baseUrl, nodeEnv, page, view, logoutCall, calc, toolbar>>

\* A submit event while `loading` is set: handleLogin returns at once.
LoginSubmitIgnored ==
    /\ location = ""
    /\ LoginGuard(form)
    /\ form' = [form EXCEPT !.ignored = TRUE]
    /\ UNCHANGED <<baseUrl, nodeEnv, jar, issued, last, page>>
    /\ UNCHANGED <<view, storage, location, logoutCall, calc, toolbar, inflight>>

NextLogin ==
    \/ LoginSubmit
    \/ LoginSubmitIgnored
    \/ LoginSettle

SpecLogin == InitLogin /\ [][NextLogin]_vars

(***************************** Claims C11..C20 *****************************)

\* The fetch of the mounted view settled with a response of this status.
Answered(status) ==
    /\ view.fetch = "settled"
    /\ view.got.kind = "response"
    /\ view.got.status = status

\* C11: in every client view that loads /api/projects, a 401 response makes
\* the view navigate to /login and leaves its error text empty.
C11_Unauthorized401 ==
    Answered(401) => (location = "/login" /\ view.error = <<>>)

\* C12: once the logout call of handleLogout has settled, whether it
\* rejected or was answered with any status, the pelios_user entry of
\* localStorage is gone and the view has navigated to /login; the step that
\* settles it leaves the view's state, its error text included, as it was.
C12_LogoutAlwaysLeaves ==
    /\ [](logoutCall.state = "done" =>
            (storage["pelios_user"] = Null /\ location = "/login"))
    /\ [][(logoutCall.state = "pending" /\ logoutCall'.state = "done")
            => view' = view]_vars

\* A logout call that failed (rejected or not 2xx) while an entry was stored.
C12_Witness ==
    /\ logoutCall.state = "done"
    /\ logoutCall.hadUser
    /\ logoutCall.got.kind = "response" => ~Ok(logoutCall.got.status)
    /\ location = "/login"

\* Two decimal digits of a number below 100
TwoDigits(n) == Digits[(n \div 10) + 1] \o Digits[(n % 10) + 1]

\* C13: with d = max(0, timeTo - timeFrom), h = d div 3600,
\* m = (d mod 3600) div 60 and s = d mod 60, every formatter yields
\* "h:MM:SS" when h > 0 and "m:SS" otherwise; so (3600, 3686) gives "1:26",
\* (0, 3600) gives "1:00:00" and timeTo < timeFrom gives "0:00".
C13_DurationFormat ==
    calc.fn = "formatDuration" =>
        LET from == OrZero(calc.from)
            to == OrZero(calc.to)
            d == IF to - from > 0 THEN to - from ELSE 0
            h == d \div 3600
            m == (d % 3600) \div 60
            s == d % 60
        IN  /\ h > 0 => calc.out = NumToString(h) \o ":" \o TwoDigits(m)
                                      \o ":" \o TwoDigits(s)
            /\ h = 0 => calc.out = NumToString(m) \o ":" \o TwoDigits(s)
            /\ (from = 3600 /\ to = 3686) => calc.out = "1:26"
            /\ (from = 0 /\ to = 3600) => calc.out = "1:00:00"
            /\ to < from => calc.out = "0:00"

C13_Witness ==
    /\ calc.fn = "formatDuration"
    /\ calc.formatter = "part_001"
    /\ calc.from = Num(3600)
    /\ calc.to = Num(3686)
    /\ calc.out = "1:26"

\* The hosts YouTube serves videos from.
YouTubeHosts == {"www.youtube.com", "youtube.com", "youtu.be"}

\* C14: getYouTubeId returns the v parameter of a YouTube watch URL, the
\* segment after "shorts" of a YouTube shorts URL, and no id for every URL
\* whose host is not a YouTube host and for unparsable input; when no id is
\* returned no thumbnail URL is produced.
C14_YouTubeId ==
    calc.fn = "getYouTubeId" =>
        LET u == calc.url IN
        /\ (u.parsable /\ u.hostname \in {"www.youtube.com", "youtube.com"}
              /\ u.path = <<"watch">> /\ Truthy(u.v)) => calc.id = u.v
        /\ (u.parsable /\ u.hostname \in {"www.youtube.com", "youtube.com"}
              /\ Len(u.path) = 2 /\ u.path[1] = "shorts" /\ u.v = Null)
                => calc.id = Str(u.path[2])
        /\ (~u.parsable \/ u.hostname \notin YouTubeHosts) => calc.id = Null
        /\ calc.id = Null => calc.thumb = Null

\* The exchange handled last issued the session.
IssuedNow ==
    /\ last.op = "token"
    /\ last.resp.kind = "response"
    /\ last.resp.cookies # <<>>

\* document.cookie can read the cookie
Readable(c) == ~c.httpOnly

\* What scripts can see of a response: status, body, readable cookies.
JsVisible(resp) ==
    [status |-> resp.status, body |-> resp.body,
     cookies |-> SelectSeq(resp.cookies, Readable)]

\* The texts scripts can read in the browser: localStorage, the readable
\* cookies, and the userName / access_Token fields of the response body of
\* the exchange that issued the session.
VisibleTexts ==
    {storage[k] : k \in StorageKeys} \cup
    {Str(jar[n].value) :
        n \in {m \in CookieNames : jar[m].present /\ ~jar[m].httpOnly}} \cup
    (IF IssuedNow /\ last.resp.body.kind = "json"
     THEN {Get(last.resp.body.value, "userName"),
           Get(last.resp.body.value, "access_Token")}
     ELSE {})

\* The upstream answer with another access token in its body.
WithToken(up, t) ==
    Upstream(up.status,
             Json(Obj([up.body.value.fields EXCEPT !.access_Token = t])))

OtherTokens == {Str("tok1"), Str("tok2"), Str("tok3")}

HasSession == jar["pelios_token"].present

\* This step is a page request answered by a page shell.
PageRequested == page' # page /\ page'.fetches = 0

\* C16: the pelios_token cookie appears only by a successful token
\* exchange and is gone once a logout response is applied; from then on a
\* page request is redirected to /login and a GET /api/projects of the
\* browser is answered 401 (by a configured server: an unconfigured one
\* answers 500 before it reads the cookie).
C16_SessionLifecycle ==
    /\ [][(~HasSession /\ HasSession') =>
            (last'.op = "token" /\ last'.resp.kind = "response"
             /\ last'.resp.cookies # <<>>)]_vars
    /\ [](last.op = "logout" => ~HasSession)
    /\ [][(last.op = "logout" /\ PageRequested) =>
            (page'.kind = "redirect" /\ page'.to = "/login")]_vars
    /\ [][(last.op = "logout" /\ last'.op = "projects" /\ last'.req.fromJar
            /\ Configured(baseUrl)) => last'.resp.status = 401]_vars

\* The page shells of the repository.
RoutedPages == {"/projects", "/projects/:id"}

\* The view of a routed page sent the browser's token, the external API
\* rejected it with 401, and the view's load() has run on the answer.
StaleToken ==
    /\ page.route \in RoutedPages
    /\ view.fetch = "settled"
    /\ view.got.kind = "response"
    /\ logoutCall.state = "idle"
    /\ last.op = "projects"
    /\ Truthy(last.req.token)
    /\ last.up.kind = "response"
    /\ last.up.status = 401

\* C17: when the pelios_token cookie is present but the external API
\* rejects it with 401, the page shell has rendered the client view (the
\* guard of /projects/:id looks at the cookie's presence only), GET
\* /api/projects relays the 401 with the upstream body, and the view
\* navigates to /login without an error text.
C17_StaleToken ==
    /\ (page.route = "/projects/:id" /\ Truthy(page.token)) =>
            (page.kind = "view" /\ page.component = "ProjectClient")
    /\ StaleToken =>
        /\ page.kind = "view"
        /\ page.token = last.req.token
        /\ view.component = page.component
        /\ last.resp = RawResponse(last.up.body, 401)
        /\ view.got = last.resp
        /\ location = "/login"
        /\ view.error = <<>>

C17_Witness ==
    /\ StaleToken
    /\ page.route = "/projects/:id"
    /\ view.component = "ProjectClient"
    /\ jar["pelios_token"].present
    /\ location = "/login"

\* The outcome of the view's fetch is neither 2xx-with-JSON nor 401.
Failed(got) ==
    \/ got.kind = "rejected"
    \/ /\ got.kind = "response"
       /\ got.status # 401
       /\ (~Ok(got.status) \/ got.body.kind # "json")

\* C18: in each client view, a fetch of /api/projects that rejects, is
\* answered with a status that is neither 2xx nor 401, or is answered 2xx
\* with a body that is not JSON leaves the view with a non-empty error text
\* (the status and raw body, or the exception's message) and with its
\* sources still empty.
C18_ErrorState ==
    (view.fetch = "settled" /\ Failed(view.got)) =>
        /\ view.error # <<>>
        /\ view.sources = Arr(<<>>)
        /\ view.got.kind = "rejected" => view.error = FailedToFetch
        /\ (view.got.kind = "response" /\ ~Ok(view.got.status)) =>
                /\ Len(view.error) = 3
                /\ view.error[2] = view.got.status
                /\ view.error[3] = view.got.body
        /\ (view.got.kind = "response" /\ Ok(view.got.status)) =>
                view.error = JsonSyntaxError

\* A 200 answer whose body is not JSON, in the draft without a 401 branch.
C18_Witness ==
    /\ view.fetch = "settled"
    /\ view.component = "ProjectsClientSimple"
    /\ view.got.kind = "response"
    /\ view.got.status = 200
    /\ view.got.body.kind = "text"
    /\ view.error = JsonSyntaxError

\* C19: a mounted view whose fetch is pending shows loading, with no error
\* and no sources; once the fetch has settled, in every branch, loading is
\* false; and a settled view keeps its state until the browser loads
\* another document.
C19_LoadStateMachine ==
    /\ [](view.fetch = "pending" =>
            (view.loading /\ view.error = <<>> /\ view.sources = Arr(<<>>)))
    /\ [](view.fetch = "settled" => ~view.loading)
    /\ [][view.fetch = "settled" =>
            (view' = view \/ RequestProjectPage \/ RequestProjectsPage
                \/ MountDraft)]_vars

\* The 401 branch has left loading.
C19_Witness ==
    /\ view.fetch = "settled"
    /\ Has401Branch(view.component)
    /\ view.got.kind = "response"
    /\ view.got.status = 401
    /\ ~view.loading

\* C20: only a successful token exchange and the logout handler set or
\* clear pelios_token or pelios_user: a response of GET /api/projects
\* carries no Set-Cookie in any outcome, a token exchange that does not
\* answer 200 carries none, and the browser's cookies change only in a
\* step of one of those two handlers, never in a page request or in a
\* step that leaves a call of the proxy as the latest one.
C20_SingleWriter ==
    /\ []((last.op = "projects" /\ last.resp.kind = "response") =>
            last.resp.cookies = <<>>)
    /\ []((last.op = "token" /\ last.resp.kind = "response"
            /\ last.resp.status # 200) => last.resp.cookies = <<>>)
    /\ [][jar' # jar =>
            /\ last'.op \in {"token", "logout"}
            /\ last'.op = "token" =>
                    (last'.resp.kind = "response" /\ last'.resp.status = 200)]_vars
    /\ [][(page' # page \/ last'.op = "projects") => jar' = jar]_vars

\* The proxy relayed a 401 for the browser's token and the session cookies
\* are still in the jar; the guard had rendered the view for that token.
C20_Witness ==
    /\ last.op = "projects"
    /\ last.req.fromJar
    /\ last.resp.status = 401
    /\ last.up.kind = "response"
    /\ jar["pelios_token"].present
    /\ jar["pelios_user"].present
    /\ page.route = "/projects/:id"
    /\ page.kind = "view"

(***************************** Claims C21..C28 *****************************)

\* C21: a mounted view has issued exactly one fetch of /api/projects, at
\* most one is outstanding (none once it has settled, whether with data,
\* an error or a 401), and a change of the search text or of the status
\* filter issues none and leaves the view's load state as it is.
C21_SingleFetch ==
    /\ [](inflight.projects <= 1)
    /\ [](view.component # "none" => page.fetches = 1)
    /\ [](inflight.projects = IF view.fetch = "pending" THEN 1 ELSE 0)
    /\ [][(ChangeSearch \/ ChangeFilter) =>
            (page' = page /\ inflight' = inflight /\ view' = view)]_vars

\* After an error the search text was changed: still one fetch, none
\* outstanding.
C21_Witness ==
    /\ view.component = "ProjectsPage"
    /\ view.fetch = "settled"
    /\ view.error # <<>>
    /\ toolbar.search = "news"
    /\ toolbar.filter = "active"
    /\ page.fetches = 1
    /\ inflight.projects = 0

\* C22: at most one POST /api/auth/token of the login form is in flight;
\* one is in flight exactly while the form waits for its answer, and a
\* step that leaves the form waiting (a submit that arrives meanwhile)
\* issues no request and reaches no handler.
C22_LoginSingleFlight ==
    /\ [](inflight.token <= 1)
    /\ [](inflight.token = IF form.pending THEN 1 ELSE 0)
    /\ [](form.pending => form.loading)
    /\ [][(form.pending /\ form'.pending) =>
            (inflight' = inflight /\ last' = last /\ jar' = jar)]_vars

\* A submit was dropped while the request was in flight.
C22_Witness ==
    /\ form.pending
    /\ form.ignored
    /\ inflight.token = 1

\* handleLogin has run to its end on the outcome of its request.
LoginSettled == ~form.pending /\ form.got.kind # "none"

LoginSucceeded ==
    LoginSettled /\ form.got.kind = "response" /\ Ok(form.got.status)

LoginFailed ==
    LoginSettled /\ (form.got.kind = "rejected" \/ ~Ok(form.got.status))

\* C23: after a 2xx answer of POST /api/auth/token the form has stored the
\* returned user name in localStorage, emptied the password and navigated
\* to /projects; after a non-2xx answer or a failed call it shows a
\* non-empty error text, has not navigated, still holds the password, and
\* is idle again (loading false), so that a further submit is accepted.
C23_LoginOutcome ==
    /\ LoginSucceeded =>
        /\ storage["pelios_user"]
              = Str(ToStr(Get(JSONparse(form.got.body).value, "userName")))
        /\ form.password = ""
        /\ location = "/projects"
        /\ form.result = <<>>
    /\ LoginFailed =>
        /\ form.result # <<>>
        /\ form.got.kind = "response" =>
              (form.result[2] = form.got.status /\ form.result[3] = form.got.body)
        /\ location = ""
        /\ form.password \in Passwords
        /\ ~form.loading
        /\ ENABLED LoginSubmit

\* The external API refused the credentials and the refusal is shown.
C23_Witness ==
    /\ LoginFailed
    /\ form.got.kind = "response"
    /\ form.got.status = 401
    /\ form.result = LoginFailure(401, Text("Invalid credentials"))
    /\ form.password = "pw"

\* C24: clearing the local display state and navigating to /login do not
\* wait for the logout call: while the call issued by handleLogout has not
\* settled, the pelios_user entry is already gone and the view has already
\* navigated to /login.
C24_LogoutFireAndForget ==
    logoutCall.state = "pending" =>
        (storage["pelios_user"] = Null /\ location = "/login")

\* C25: when the outbound call of POST /api/auth/token fails at the network
\* level, the handler answers with a JSON error body of its own under a
\* status that is not a 4xx, and sets no cookie.
C25_TokenUnreachable ==
    (last.op = "token" /\ last.up.kind = "throws") =>
        /\ last.resp.kind = "response"
        /\ IsErrorJson(last.resp.body)
        /\ last.resp.status \notin 400..499
        /\ last.resp.cookies = <<>>

\* The exchange handled last failed for one of the four causes: missing
\* configuration, upstream non-2xx, 2xx body that is not JSON, 2xx JSON
\* without a non-empty access_Token.
ExchangeFailed ==
    /\ last.op = "token"
    /\ \/ ~Configured(baseUrl)
       \/ /\ last.up.kind = "response"
          /\ \/ ~Ok(last.up.status)
             \/ last.up.body.kind # "json"
             \/ ~Truthy(UpstreamToken)

\* C26: a token exchange that fails for one of those causes answers with a
\* response that sets no cookie, and the step leaves the browser's cookies,
\* a session held before included, as they were.
C26_NoCookieOnFailure ==
    /\ [](ExchangeFailed =>
            (last.resp.kind = "response" /\ last.resp.cookies = <<>>
             /\ last.resp.status # 200))
    /\ [][ExchangeFailed' => jar' = jar]_vars

\* An unreadable 2xx answer while a session is held: the session stays.
C26_Witness ==
    /\ ExchangeFailed
    /\ last.up = Upstream(200, Text("<html>"))
    /\ last.resp.status = 502
    /\ jar["pelios_token"].present
    /\ jar["pelios_token"].value = "tok1"
    /\ jar["pelios_user"].present

\* C27: with the configuration present, for every value of the
\* pelios_token cookie (absent, empty, non-empty) the guard of /projects/:id
\* redirects to /login exactly when GET /api/projects answers 401 with an
\* error body of its own without calling the external API.
C27_GuardProxyAgree ==
    (calc.fn = "session" /\ Configured(baseUrl)) =>
        ((calc.guard.kind = "redirect" /\ calc.guard.to = "/login")
            <=> (/\ calc.proxy.outbound = <<>>
                 /\ calc.proxy.resp.status = 401
                 /\ IsErrorJson(calc.proxy.resp.body)))

\* The empty cookie: redirected by the guard, refused by the proxy.
C27_Witness ==
    /\ calc.fn = "session"
    /\ calc.token = Str("")
    /\ calc.guard.kind = "redirect"
    /\ calc.proxy.resp.status = 401
    /\ calc.proxy.outbound = <<>>

\* C28: in every client view, at no time are an error text and fetched
\* sources both present: a non-empty error text goes with the empty source
\* set, and a non-empty source set with the empty error text.
C28_ErrorXorData ==
    /\ view.error # <<>> => view.sources = Arr(<<>>)
    /\ view.sources # Arr(<<>>) => view.error = <<>>

\* A 502 with a JSON body: the error is shown, the body is not stored.
C28_Witness ==
    /\ view.fetch = "settled"
    /\ view.got.kind = "response"
    /\ view.got.status = 502
    /\ view.got.body.kind = "json"
    /\ view.error # <<>>
    /\ view.sources = Arr(<<>>)

====
